---------------------------- MODULE Spec2Model ----------------------------
(***************************************************************************)
(* A model of krpc-build (src/krpc-build/src/lib.rs): the generator that   *)
(* reads a directory of JSON service definitions and emits client bindings *)
(* into a codegen scope, which it writes to the output at the end.         *)
(*                                                                         *)
(* Strings are sequences of tokens: an identifier is spelled character by  *)
(* character (so that case conversion is computed), a literal of the       *)
(* generator is one token.  "" is the empty sequence.                      *)
(***************************************************************************)
EXTENDS Integers, Sequences, FiniteSets, TLC

VARIABLES
    pc,            \* position of build(): "read_dir", "entry", "service", "proc", "write", "done"
    outcome,       \* "running", "ok" (Ok(())), "err" (Err(e) returned), "panic" (unwind)
    cause,         \* what ended the run: "none" or the failing operation
    nfiles,        \* directory entries taken from read_dir so far
    json,          \* entries of the document being processed (service name -> props)
    si,            \* index in json of the service being processed
    service_name,  \* the service key of the last module pushed by build_json
    procedures,    \* entries of props["procedures"] of that service
    pi,            \* index in procedures of the next procedure of the loop
    scope,         \* the codegen scope: the modules pushed so far
    sink,          \* the write! calls made on `out`
    ty,            \* type resolver harness: the descriptor under resolution
    tpc,           \* type resolver harness: "idle", "input", "decoded", "param", "return"
    tres           \* type resolver harness: the result of the step taken

vars == <<pc, outcome, cause, nfiles, json, si, service_name, procedures, pi,
          scope, sink, ty, tpc, tres>>

build_vars == <<pc, outcome, cause, nfiles, json, si, service_name, procedures,
                pi, scope, sink>>

type_vars == <<ty, tpc, tres>>

-----------------------------------------------------------------------------
(* Bounds *)

\* Type descriptors of the resolver harness have at most this many JSON nodes.
MaxNodes == 3

\* build() takes at most this many entries from the directory.
MaxFiles == 2

-----------------------------------------------------------------------------
(* Strings *)

UpperChars == <<"A","B","C","D","E","F","G","H","I","J","K","L","M",
                "N","O","P","Q","R","S","T","U","V","W","X","Y","Z">>

LowerChars == <<"a","b","c","d","e","f","g","h","i","j","k","l","m",
                "n","o","p","q","r","s","t","u","v","w","x","y","z">>

IsUpper(c) == \E i \in DOMAIN UpperChars : UpperChars[i] = c

IsLower(c) == \E i \in DOMAIN LowerChars : LowerChars[i] = c

ToLowerChar(c) ==
    IF IsUpper(c)
    THEN LowerChars[CHOOSE i \in DOMAIN UpperChars : UpperChars[i] = c]
    ELSE c

ToUpperChar(c) ==
    IF IsLower(c)
    THEN UpperChars[CHOOSE i \in DOMAIN LowerChars : LowerChars[i] = c]
    ELSE c

\* The delimiters convert_case removes when it splits an identifier.
IsDelimiter(c) == c \in {"_", "-", " "}

\* [T]::join(sep) on strings
RECURSIVE Join(_, _)
Join(strs, sep) ==
    IF strs = <<>> THEN <<>>
    ELSE IF Len(strs) = 1 THEN strs[1]
    ELSE strs[1] \o sep \o Join(Tail(strs), sep)

\* concat of a sequence of strings
RECURSIVE Concat(_)
Concat(strs) == IF strs = <<>> THEN <<>> ELSE strs[1] \o Concat(Tail(strs))

\* A word boundary between s[i] and s[i+1]: lower|Upper, and the last capital
\* of an acronym followed by a lowercase letter (HTTPRequest -> HTTP|Request).
Boundary(s, i) ==
    \/ IsLower(s[i]) /\ IsUpper(s[i+1])
    \/ IsUpper(s[i]) /\ IsUpper(s[i+1]) /\ i + 2 <= Len(s) /\ IsLower(s[i+2])

\* The words of s from position i on, `cur` being the word collected so far.
RECURSIVE WordsFrom(_, _, _)
WordsFrom(s, i, cur) ==
    IF i > Len(s) THEN (IF cur = <<>> THEN <<>> ELSE <<cur>>)
    ELSE IF IsDelimiter(s[i])
         THEN (IF cur = <<>> THEN <<>> ELSE <<cur>>) \o WordsFrom(s, i + 1, <<>>)
    ELSE IF i < Len(s) /\ Boundary(s, i)
         THEN <<Append(cur, s[i])>> \o WordsFrom(s, i + 1, <<>>)
    ELSE WordsFrom(s, i + 1, Append(cur, s[i]))

Words(s) == WordsFrom(s, 1, <<>>)

LowerWord(w) == [i \in 1..Len(w) |-> ToLowerChar(w[i])]

CapitalWord(w) ==
    [i \in 1..Len(w) |-> IF i = 1 THEN ToUpperChar(w[i]) ELSE ToLowerChar(w[i])]

\* s.to_case(Case::Snake)
ToSnake(s) ==
    LET ws == Words(s)
    IN  Join([k \in 1..Len(ws) |-> LowerWord(ws[k])], <<"_">>)

\* s.to_case(Case::Pascal)
ToPascal(s) ==
    LET ws == Words(s)
    IN  Concat([k \in 1..Len(ws) |-> CapitalWord(ws[k])])

\* s.is_case(Case::Pascal)
IsPascal(s) == ToPascal(s) = s

-----------------------------------------------------------------------------
(* serde_json values: j is the kind, s the text of a string, e the elements *)
(* of an array or the entries [k, v] of an object in iteration order.       *)

JNull == [j |-> "null", s |-> <<>>, e |-> <<>>]

JStr(s) == [j |-> "str", s |-> s, e |-> <<>>]

JArr(a) == [j |-> "arr", s |-> <<>>, e |-> a]

JObj(entries) == [j |-> "obj", s |-> <<>>, e |-> entries]

KV(k, v) == [k |-> k, v |-> v]

\* v.as_object().is_some(), v.as_array().is_some(), v.as_str().is_some()
IsObj(v) == v.j = "obj"

IsArr(v) == v.j = "arr"

IsStr(v) == v.j = "str"

\* Map::get(key).is_some()
Has(o, key) == \E i \in DOMAIN o.e : o.e[i].k = key

\* Map::get(key).unwrap()
Get(o, key) == o.e[CHOOSE i \in DOMAIN o.e : o.e[i].k = key].v

\* o.get(key).unwrap().as_str().unwrap() does not panic
HasStr(o, key) == Has(o, key) /\ IsStr(Get(o, key))

\* o.get(key).unwrap().as_array().unwrap() does not panic
HasArr(o, key) == Has(o, key) /\ IsArr(Get(o, key))

\* o.get(key).unwrap().as_object().unwrap() does not panic
HasObj(o, key) == Has(o, key) /\ IsObj(Get(o, key))

-----------------------------------------------------------------------------
(* Type resolution.  A result is [ok, s]: the type expression s, or a panic *)
(* of an unwrap() (ok = FALSE).                                             *)

Ok(s) == [ok |-> TRUE, s |-> s]

Panic == [ok |-> FALSE, s |-> <<>>]

\* Mutant: the service segment of the path is the raw service name.
decode_class_raw_service(t) ==
    IF ~HasStr(t, <<"service">>) \/ ~HasStr(t, <<"name">>) THEN Panic
    ELSE Ok(<<"crate::services::">> \o Get(t, <<"service">>).s
            \o <<"::">> \o Get(t, <<"name">>).s)

decode_class(t) ==
    IF ~HasStr(t, <<"service">>) \/ ~HasStr(t, <<"name">>) THEN Panic
    ELSE Ok(<<"crate::services::">> \o ToSnake(Get(t, <<"service">>).s)
            \o <<"::">> \o Get(t, <<"name">>).s)

RECURSIVE decode_type(_)
RECURSIVE decode_tuple(_)
RECURSIVE decode_list(_)
RECURSIVE decode_elems(_, _, _)

\* The loop of decode_tuple from element i on, `out` being the vector so far.
decode_elems(types, i, out) ==
    IF i > Len(types) THEN [ok |-> TRUE, out |-> out]
    ELSE IF ~IsObj(types[i]) THEN [ok |-> FALSE, out |-> out]
    ELSE LET r == decode_type(types[i])
         IN  IF ~r.ok THEN [ok |-> FALSE, out |-> out]
             ELSE decode_elems(types, i + 1, Append(out, r.s))

\* Mutant: the element types are joined without the space after the comma.
decode_tuple_tight(t) ==
    IF ~HasArr(t, <<"types">>) THEN Panic
    ELSE LET r == decode_elems(Get(t, <<"types">>).e, 1, <<>>)
         IN  IF ~r.ok THEN Panic
             ELSE Ok(<<"(">> \o Join(r.out, <<",">>) \o <<")">>)

decode_tuple(t) ==
    IF ~HasArr(t, <<"types">>) THEN Panic
    ELSE LET r == decode_elems(Get(t, <<"types">>).e, 1, <<>>)
         IN  IF ~r.ok THEN Panic
             ELSE Ok(<<"(">> \o Join(r.out, <<", ">>) \o <<")">>)

\* Mutant: the element type is taken from the last entry of "types".
decode_list_last(t) ==
    IF ~HasArr(t, <<"types">>) THEN Panic
    ELSE LET types == Get(t, <<"types">>).e
         IN  IF types = <<>> \/ ~IsObj(types[Len(types)]) THEN Panic
             ELSE LET r == decode_type(types[Len(types)])
                  IN  IF ~r.ok THEN Panic
                      ELSE Ok(<<"Vec<">> \o r.s \o <<">">>)

decode_list(t) ==
    IF ~HasArr(t, <<"types">>) THEN Panic
    ELSE LET types == Get(t, <<"types">>).e
         IN  IF types = <<>> \/ ~IsObj(types[1]) THEN Panic
             ELSE LET r == decode_type(types[1])
                  IN  IF ~r.ok THEN Panic
                      ELSE Ok(<<"Vec<">> \o r.s \o <<">">>)

\* Mutant: a code outside the table is an error instead of the empty type.
decode_type_strict(t) ==
    IF ~HasStr(t, <<"code">>) THEN Panic
    ELSE LET code == Get(t, <<"code">>).s
         IN  CASE code = <<"STRING">> -> Ok(<<"String">>)
               [] code = <<"SINT32">> -> Ok(<<"i32">>)
               [] code = <<"BOOL">>   -> Ok(<<"bool">>)
               [] code = <<"FLOAT">>  -> Ok(<<"f32">>)
               [] code = <<"DOUBLE">> -> Ok(<<"f64">>)
               [] code = <<"TUPLE">>  -> decode_tuple(t)
               [] code = <<"LIST">>   -> decode_list(t)
               [] code = <<"CLASS">>  -> decode_class(t)
               [] OTHER               -> Panic

decode_type(t) ==
    IF ~HasStr(t, <<"code">>) THEN Panic
    ELSE LET code == Get(t, <<"code">>).s
         IN  CASE code = <<"STRING">> -> Ok(<<"String">>)
               [] code = <<"SINT32">> -> Ok(<<"i32">>)
               [] code = <<"BOOL">>   -> Ok(<<"bool">>)
               [] code = <<"FLOAT">>  -> Ok(<<"f32">>)
               [] code = <<"DOUBLE">> -> Ok(<<"f64">>)
               [] code = <<"TUPLE">>  -> decode_tuple(t)
               [] code = <<"LIST">>   -> decode_list(t)
               [] code = <<"CLASS">>  -> decode_class(t)
               [] OTHER               -> Ok(<<>>)

-----------------------------------------------------------------------------
(* The codegen scope.  A module is [name, imports, structs, raws, impl]; a  *)
(* function is [name, vis, recv, args, ret, body], ret being <<>> or <<t>>. *)

ClientType == <<"::std::sync::Arc<crate::client::Client>">>

\* Mutant: the request carries the normalized names.
CallBody_normalized(service, procedure, proc_args) ==
    [service   |-> ToSnake(service),
     procedure |-> ToSnake(procedure),
     args      |-> proc_args,
     steps     |-> <<"Request::from(proc_call)", "self.client.call(request)",
                     "dbg!(&response)", "response.into()">>]

\* The body text of a generated method: the format! template of build_json
\* with its three holes, and the statements of the template in order.
CallBody(service, procedure, proc_args) ==
    [service   |-> service,
     procedure |-> procedure,
     args      |-> proc_args,
     steps     |-> <<"Request::from(proc_call)", "self.client.call(request)",
                     "dbg!(&response)", "response.into()">>]

\* service_impl.new_fn("new")...
NewFn ==
    [name |-> <<"new">>, vis |-> "pub", recv |-> FALSE,
     args |-> << [name |-> <<"client">>, ty |-> ClientType] >>,
     ret  |-> << <<"Self">> >>,
     body |-> [service |-> <<>>, procedure |-> <<>>, args |-> <<>>,
               steps |-> <<"Self { client }">>]]

\* Mutant: the positional tags count from one.
RECURSIVE emit_params_one_based(_, _, _, _)
emit_params_one_based(params, i, proc_args, args) ==
    IF i > Len(params) THEN [ok |-> TRUE, proc_args |-> proc_args, args |-> args]
    ELSE LET p == params[i]
         IN  IF ~IsObj(p) \/ ~HasStr(p, <<"name">>) \/ ~HasObj(p, <<"type">>)
             THEN [ok |-> FALSE, proc_args |-> proc_args, args |-> args]
             ELSE LET name == ToSnake(Get(p, <<"name">>).s)
                      t    == decode_type(Get(p, <<"type">>))
                  IN  IF ~t.ok
                      THEN [ok |-> FALSE, proc_args |-> proc_args, args |-> args]
                      ELSE emit_params_one_based(params, i + 1,
                               Append(proc_args, [recv |-> name, tag |-> i]),
                               Append(args, [name |-> name, ty |-> t.s]))

\* The loop over the parameters of one procedure from index i on (pos = i - 1):
\* proc_args collects the request's arguments, args the method's parameters.
RECURSIVE emit_params(_, _, _, _)
emit_params(params, i, proc_args, args) ==
    IF i > Len(params) THEN [ok |-> TRUE, proc_args |-> proc_args, args |-> args]
    ELSE LET p == params[i]
         IN  IF ~IsObj(p) \/ ~HasStr(p, <<"name">>) \/ ~HasObj(p, <<"type">>)
             THEN [ok |-> FALSE, proc_args |-> proc_args, args |-> args]
             ELSE LET name == ToSnake(Get(p, <<"name">>).s)
                      t    == decode_type(Get(p, <<"type">>))
                  IN  IF ~t.ok
                      THEN [ok |-> FALSE, proc_args |-> proc_args, args |-> args]
                      ELSE emit_params(params, i + 1,
                               Append(proc_args, [recv |-> name, tag |-> i - 1]),
                               Append(args, [name |-> name, ty |-> t.s]))

\* The return type of the method for `def`: none, one, or a panic.
emit_return(def) ==
    IF ~Has(def, <<"return_type">>) THEN [ok |-> TRUE, ret |-> <<>>]
    ELSE IF ~IsObj(Get(def, <<"return_type">>)) THEN [ok |-> FALSE, ret |-> <<>>]
    ELSE LET t == decode_type(Get(def, <<"return_type">>))
         IN  IF ~t.ok THEN [ok |-> FALSE, ret |-> <<>>]
             ELSE [ok |-> TRUE, ret |-> <<t.s>>]

\* Mutant: a method without a return type does not convert the response.
build_json_proc_void(service, proc_name, def) ==
    IF ~IsObj(def) \/ ~HasArr(def, <<"parameters">>) THEN [ok |-> FALSE, fn |-> NewFn]
    ELSE LET ps == emit_params(Get(def, <<"parameters">>).e, 1, <<>>, <<>>)
             rt == emit_return(def)
             body == CallBody(service, proc_name, ps.proc_args)
         IN  IF ~ps.ok \/ ~rt.ok THEN [ok |-> FALSE, fn |-> NewFn]
             ELSE [ok |-> TRUE,
                   fn |-> [name |-> ToSnake(proc_name), vis |-> "pub",
                           recv |-> TRUE, args |-> ps.args, ret |-> rt.ret,
                           body |-> IF rt.ret = <<>>
                                    THEN [body EXCEPT !.steps = SubSeq(@, 1, 3)]
                                    ELSE body]]

\* One eligible procedure of build_json's loop: the method it adds, or a panic.
build_json_proc(service, proc_name, def) ==
    IF ~IsObj(def) \/ ~HasArr(def, <<"parameters">>) THEN [ok |-> FALSE, fn |-> NewFn]
    ELSE LET ps == emit_params(Get(def, <<"parameters">>).e, 1, <<>>, <<>>)
             rt == emit_return(def)
         IN  IF ~ps.ok \/ ~rt.ok THEN [ok |-> FALSE, fn |-> NewFn]
             ELSE [ok |-> TRUE,
                   fn |-> [name |-> ToSnake(proc_name), vis |-> "pub",
                           recv |-> TRUE, args |-> ps.args, ret |-> rt.ret,
                           body |-> CallBody(service, proc_name, ps.proc_args)]]

\* Mutant: a procedure is skipped unless its name starts with a capital.
Skipped_initial(proc_name) == proc_name = <<>> \/ ~IsUpper(proc_name[1])

\* The condition of build_json's `continue`.
Skipped(proc_name) == ~IsPascal(proc_name)

\* The value names of one enumeration, or a panic.
EnumOk(values_json) ==
    /\ IsObj(values_json)
    /\ HasArr(values_json, <<"values">>)
    /\ \A d \in {Get(values_json, <<"values">>).e[i] :
                    i \in DOMAIN Get(values_json, <<"values">>).e} :
          IsObj(d) /\ HasStr(d, <<"name">>)

EnumValues(values_json) ==
    LET vs == Get(values_json, <<"values">>).e
    IN  [i \in 1..Len(vs) |-> Get(vs[i], <<"name">>).s]

\* root.new_module(name) panics on a module name the scope already holds.
DupModule(service, root) ==
    \E m \in DOMAIN root : root[m].name = ToSnake(service)

\* Whether the part of build_json before the procedure loop runs without a
\* panic of new_module or of an unwrap() on the shape of props.
BeginOk(service, props, root) ==
    /\ ~DupModule(service, root)
    /\ IsObj(props)
    /\ HasObj(props, <<"classes">>)
    /\ HasObj(props, <<"enumerations">>)
    /\ \A i \in DOMAIN Get(props, <<"enumerations">>).e :
          EnumOk(Get(props, <<"enumerations">>).e[i].v)
    /\ HasObj(props, <<"procedures">>)

\* The module build_json has pushed when it reaches the procedure loop.
build_json_begin(service, props) ==
    LET classes == Get(props, <<"classes">>).e
        enums   == Get(props, <<"enumerations">>).e
    IN  [name    |-> ToSnake(service),
         imports |-> << <<"crate::schema", "ToArgument">> >>,
         structs |-> << [name |-> ToPascal(service), vis |-> "pub",
                        fields |-> << [name |-> <<"pub client">>, ty |-> ClientType] >>] >>,
         raws    |-> [i \in 1..Len(classes) |->
                         [macro |-> "rpc_object", name |-> classes[i].k,
                          values |-> <<>>]]
                     \o [i \in 1..Len(enums) |->
                         [macro |-> "rpc_enum", name |-> enums[i].k,
                          values |-> EnumValues(enums[i].v)]],
         impl    |-> [target |-> ToPascal(service), fns |-> <<NewFn>>]]

\* sfn is a method of the impl of the last module of the scope.
PushFn(root, fn) ==
    [root EXCEPT ![Len(root)].impl.fns = Append(@, fn)]

-----------------------------------------------------------------------------
(* Inputs: identifiers, type descriptors, procedure definitions, documents  *)

Demo == <<"D","e","m","o">>

KRPC == <<"K","R","P","C">>

Vessel == <<"V","e","s","s","e","l">>

Code == <<"code">>

Types == <<"types">>

Prim(code) == JObj(<<KV(Code, JStr(<<code>>))>>)

TupleOf(f) == JObj(<<KV(Code, JStr(<<"TUPLE">>)), KV(Types, JArr(f))>>)

ListOf(f) == JObj(<<KV(Code, JStr(<<"LIST">>)), KV(Types, JArr(f))>>)

ClassOf(service, name) ==
    JObj(<<KV(Code, JStr(<<"CLASS">>)), KV(<<"service">>, JStr(service)),
           KV(<<"name">>, JStr(name))>>)

\* The codes decode_type matches.
KnownCodes == {<<"STRING">>, <<"SINT32">>, <<"BOOL">>, <<"FLOAT">>, <<"DOUBLE">>,
               <<"TUPLE">>, <<"LIST">>, <<"CLASS">>}

\* Descriptors of one node: the primitives, a code decode_type does not know,
\* a class reference, and descriptors lacking a key the code unwraps.
LeafTypes ==
    {Prim("STRING"), Prim("SINT32"), Prim("BOOL"), Prim("FLOAT"), Prim("DOUBLE"),
     Prim("UINT64"),
     ClassOf(Demo, Vessel),
     JObj(<<KV(Code, JStr(<<"CLASS">>)), KV(<<"service">>, JStr(Demo))>>),
     JObj(<<>>),
     Prim("TUPLE"),
     Prim("LIST")}

\* What a "types" array may hold in one node: a descriptor or a non-object.
LeafElems == LeafTypes \cup {JNull}

\* Forests[n]: the "types" arrays whose elements have n nodes in all.
Forests[n \in Nat] ==
    IF n = 0 THEN {<<>>}
    ELSE UNION { { <<t>> \o f :
                     t \in (IF k = 1 THEN LeafElems ELSE {})
                           \cup {TupleOf(g) : g \in Forests[k - 1]}
                           \cup {ListOf(g) : g \in Forests[k - 1]},
                     f \in Forests[n - k] } : k \in 1..n }

\* The type descriptors (JSON objects) of at most MaxNodes nodes.
TypeDescs ==
    LeafTypes \cup UNION { {TupleOf(g) : g \in Forests[k - 1]}
                           \cup {ListOf(g) : g \in Forests[k - 1]} : k \in 1..MaxNodes }

Param(name, t) == JObj(<<KV(<<"name">>, JStr(name)), KV(<<"type">>, t)>>)

ProcDef(params) == JObj(<<KV(<<"parameters">>, JArr(params))>>)

ProcDefRet(params, ret) ==
    JObj(<<KV(<<"parameters">>, JArr(params)), KV(<<"return_type">>, ret)>>)

VId == <<"v","I","d">>

Name == <<"N","a","m","e">>

DefNoParams == ProcDefRet(<<>>, Prim("STRING"))

DefTwoParams ==
    ProcDef(<<Param(VId, Prim("SINT32")),
              Param(Name, ListOf(<<ClassOf(KRPC, Vessel)>>))>>)

DefUnknown ==
    ProcDefRet(<<Param(Name, TupleOf(<<Prim("UINT64"), Prim("BOOL")>>))>>,
               Prim("UINT64"))

DefBadType == ProcDef(<<Param(VId, Prim("BOOL")), Param(Name, ListOf(<<>>))>>)

DefNullReturn == ProcDefRet(<<>>, JNull)

DefNoParameters == JObj(<<>>)

\* The procedures a service may declare, in the schema's order.  The keys
\* GetId, SetId, Scan, Load, Stop and Make are in Pascal case; get_id,
\* Vessel_get_Id, set_id and GetID are not.
ProcEntries ==
    << KV(<<"G","e","t","I","d">>, DefNoParams),
       KV(<<"S","e","t","I","d">>, DefTwoParams),
       KV(<<"g","e","t","_","i","d">>, DefTwoParams),
       KV(<<"V","e","s","s","e","l","_","g","e","t","_","I","d">>, JNull),
       KV(<<"S","c","a","n">>, DefUnknown),
       KV(<<"s","e","t","_","i","d">>, DefBadType),
       KV(<<"G","e","t","I","D">>, DefNullReturn),
       KV(<<"L","o","a","d">>, DefBadType),
       KV(<<"S","t","o","p">>, DefNullReturn),
       KV(<<"M","a","k","e">>, DefNoParameters) >>

\* The procedure maps of at most n entries.
ProcLists(n) ==
    {<<>>}
    \cup {<<ProcEntries[a]>> : a \in DOMAIN ProcEntries}
    \cup (IF n < 2 THEN {}
          ELSE {<<ProcEntries[ab[1]], ProcEntries[ab[2]]>> :
                   ab \in {p \in (DOMAIN ProcEntries) \X (DOMAIN ProcEntries) :
                              p[1] < p[2]}})

Classes == JObj(<<KV(Vessel, JObj(<<>>)), KV(<<"P","a","r","t">>, JObj(<<>>))>>)

EnumVal(n) == JObj(<<KV(<<"name">>, JStr(n))>>)

Enums ==
    JObj(<<KV(<<"M","o","d","e">>,
              JObj(<<KV(<<"values">>, JArr(<<EnumVal(<<"A">>), EnumVal(<<"B">>)>>))>>))>>)

Props(classes, enums, procs) ==
    JObj(<<KV(<<"classes">>, classes), KV(<<"enumerations">>, enums),
           KV(<<"procedures">>, procs)>>)

Service(procs) == Props(Classes, Enums, JObj(procs))

\* Documents of the expected shape.
GoodDocs ==
    {JObj(<<KV(Demo, Service(ps))>>) : ps \in ProcLists(2)}
    \cup {JObj(<<KV(KRPC, Service(ps))>>) : ps \in ProcLists(1)}
    \cup {JObj(<<>>),
          JObj(<<KV(Demo, Service(<<ProcEntries[1]>>)),
                 KV(KRPC, Service(<<ProcEntries[3], ProcEntries[2]>>))>>),
          JObj(<<KV(KRPC, Service(<<>>)), KV(<<"k","r","p","c">>, Service(<<>>))>>)}

\* Documents that are valid JSON of an unexpected shape.
BadDocs ==
    {JArr(<<>>),
     JObj(<<KV(Demo, JNull)>>),
     JObj(<<KV(Demo, JObj(<<KV(<<"enumerations">>, Enums),
                            KV(<<"procedures">>, JObj(<<>>))>>))>>),
     JObj(<<KV(Demo, Props(JArr(<<>>), Enums, JObj(<<>>)))>>),
     JObj(<<KV(Demo, Props(Classes, JObj(<<KV(Name, JObj(<<>>))>>), JObj(<<>>)))>>),
     JObj(<<KV(Demo, Props(Classes,
                           JObj(<<KV(Name, JObj(<<KV(<<"values">>,
                                                     JArr(<<EnumVal(<<"A">>), JObj(<<>>)>>))>>))>>),
                           JObj(<<>>)))>>),
     JObj(<<KV(Demo, JObj(<<KV(<<"classes">>, Classes),
                            KV(<<"enumerations">>, Enums)>>))>>),
     JObj(<<KV(Demo, Props(Classes, Enums, JArr(<<>>)))>>)}

Docs == GoodDocs \cup BadDocs

-----------------------------------------------------------------------------
(* build(): the run of the generator                                        *)

Init ==
    /\ pc = "read_dir"
    /\ outcome = "running"
    /\ cause = "none"
    /\ nfiles = 0
    /\ json = <<>>
    /\ si = 0
    /\ service_name = <<>>
    /\ procedures = <<>>
    /\ pi = 0
    /\ scope = <<>>
    /\ sink = <<>>
    /\ ty = JNull
    /\ tpc = "idle"
    /\ tres = Panic

\* The run ends with `result` for the reason `why`; nothing else changes.
Ends(result, why) ==
    /\ pc' = "done"
    /\ outcome' = result
    /\ cause' = why
    /\ UNCHANGED <<nfiles, json, si, service_name, procedures, pi, scope, sink>>

\* fs::read_dir(service_definitions)? returns the error.
ReadDirFails ==
    /\ pc = "read_dir"
    /\ Ends("err", "read_dir")
    /\ UNCHANGED type_vars

\* fs::read_dir(service_definitions)? yields the iterator.
ReadDir ==
    /\ pc = "read_dir"
    /\ pc' = "entry"
    /\ UNCHANGED <<outcome, cause, nfiles, json, si, service_name, procedures,
                   pi, scope, sink>>
    /\ UNCHANGED type_vars

\* Mutant: the error of the directory entry is returned (def?).
EntryUnreadable_returned ==
    /\ pc = "entry"
    /\ nfiles < MaxFiles
    /\ pc' = "done"
    /\ outcome' = "err"
    /\ cause' = "dir_entry"
    /\ UNCHANGED <<nfiles, json, si, service_name, procedures, pi, scope, sink>>
    /\ UNCHANGED <<ty, tpc, tres>>

\* The iterator yields Err: def.unwrap() panics.
EntryUnreadable ==
    /\ pc = "entry"
    /\ nfiles < MaxFiles
    /\ Ends("panic", "dir_entry")
    /\ UNCHANGED type_vars

\* fs::File::open(..)? returns the error.
OpenFails ==
    /\ pc = "entry"
    /\ nfiles < MaxFiles
    /\ Ends("err", "open")
    /\ UNCHANGED type_vars

\* serde_json::from_reader(def_file)? returns the error.
InvalidJson ==
    /\ pc = "entry"
    /\ nfiles < MaxFiles
    /\ Ends("err", "json")
    /\ UNCHANGED type_vars

\* The file parses to a value that is no object: json.as_object().unwrap() panics.
DocumentNotObject ==
    /\ pc = "entry"
    /\ nfiles < MaxFiles
    /\ \E d \in Docs : ~IsObj(d)
    /\ Ends("panic", "shape")
    /\ UNCHANGED type_vars

\* The file parses to an object: the loop over its services starts.
ParseDocument ==
    /\ pc = "entry"
    /\ nfiles < MaxFiles
    /\ \E d \in Docs :
          /\ IsObj(d)
          /\ json' = d.e
          /\ si' = 1
          /\ pc' = IF d.e = <<>> THEN "entry" ELSE "service"
    /\ nfiles' = nfiles + 1
    /\ UNCHANGED <<outcome, cause, service_name, procedures, pi, scope, sink>>
    /\ UNCHANGED type_vars

\* build_json up to its procedure loop panics.
BuildJsonPanics ==
    /\ pc = "service"
    /\ ~BeginOk(json[si].k, json[si].v, scope)
    /\ pc' = "done"
    /\ outcome' = "panic"
    /\ cause' = IF DupModule(json[si].k, scope) THEN "module" ELSE "shape"
    /\ UNCHANGED <<nfiles, json, si, service_name, procedures, pi, scope, sink>>
    /\ UNCHANGED type_vars

\* build_json up to its procedure loop: the module, its struct, the class and
\* enumeration declarations, the impl and its constructor.
BuildJsonBegin ==
    /\ pc = "service"
    /\ BeginOk(json[si].k, json[si].v, scope)
    /\ service_name' = json[si].k
    /\ scope' = Append(scope, build_json_begin(json[si].k, json[si].v))
    /\ procedures' = Get(json[si].v, <<"procedures">>).e
    /\ pi' = 1
    /\ pc' = "proc"
    /\ UNCHANGED <<outcome, cause, nfiles, json, si, sink>>
    /\ UNCHANGED type_vars

\* An iteration of the procedure loop that takes `continue`.
SkipProcedure ==
    /\ pc = "proc"
    /\ pi <= Len(procedures)
    /\ Skipped(procedures[pi].k)
    /\ pi' = pi + 1
    /\ UNCHANGED <<pc, outcome, cause, nfiles, json, si, service_name,
                   procedures, scope, sink>>
    /\ UNCHANGED type_vars

\* An iteration of the procedure loop that adds a method.
EmitProcedure ==
    /\ pc = "proc"
    /\ pi <= Len(procedures)
    /\ ~Skipped(procedures[pi].k)
    /\ LET r == build_json_proc(service_name, procedures[pi].k, procedures[pi].v)
       IN  /\ r.ok
           /\ scope' = PushFn(scope, r.fn)
    /\ pi' = pi + 1
    /\ UNCHANGED <<pc, outcome, cause, nfiles, json, si, service_name,
                   procedures, sink>>
    /\ UNCHANGED type_vars

\* An iteration of the procedure loop that panics on the procedure's shape.
\* The scope, with the method new_fn has begun, is dropped by the unwinding.
ProcedurePanics ==
    /\ pc = "proc"
    /\ pi <= Len(procedures)
    /\ ~Skipped(procedures[pi].k)
    /\ ~build_json_proc(service_name, procedures[pi].k, procedures[pi].v).ok
    /\ Ends("panic", "shape")
    /\ UNCHANGED type_vars

\* Mutant: the scope is written out after each service.
BuildJsonEnd_flush ==
    /\ pc = "proc"
    /\ pi > Len(procedures)
    /\ IF si < Len(json)
       THEN si' = si + 1 /\ pc' = "service"
       ELSE si' = si /\ pc' = "entry"
    /\ sink' = Append(sink, [text |-> scope, complete |-> TRUE])
    /\ UNCHANGED <<outcome, cause, nfiles, json, service_name, procedures, pi,
                   scope>>
    /\ UNCHANGED <<ty, tpc, tres>>

\* build_json returns Ok(()): the next service of the document, or the next
\* directory entry.
BuildJsonEnd ==
    /\ pc = "proc"
    /\ pi > Len(procedures)
    /\ IF si < Len(json)
       THEN si' = si + 1 /\ pc' = "service"
       ELSE si' = si /\ pc' = "entry"
    /\ UNCHANGED <<outcome, cause, nfiles, json, service_name, procedures, pi,
                   scope, sink>>
    /\ UNCHANGED type_vars

\* The directory iterator is exhausted.
DirExhausted ==
    /\ pc = "entry"
    /\ pc' = "write"
    /\ UNCHANGED <<outcome, cause, nfiles, json, si, service_name, procedures,
                   pi, scope, sink>>
    /\ UNCHANGED type_vars

\* write!(out, "{}", scope.to_string()) succeeds: build returns Ok(()).
WriteOut ==
    /\ pc = "write"
    /\ sink' = Append(sink, [text |-> scope, complete |-> TRUE])
    /\ pc' = "done"
    /\ outcome' = "ok"
    /\ UNCHANGED <<cause, nfiles, json, si, service_name, procedures, pi, scope>>
    /\ UNCHANGED type_vars

\* write! fails, after `out` took none or some of the text: build returns the error.
WriteFails ==
    /\ pc = "write"
    /\ sink' = Append(sink, [text |-> scope, complete |-> FALSE])
    /\ pc' = "done"
    /\ outcome' = "err"
    /\ cause' = "sink"
    /\ UNCHANGED <<nfiles, json, si, service_name, procedures, pi, scope>>
    /\ UNCHANGED type_vars

Next ==
    \/ ReadDirFails
    \/ ReadDir
    \/ EntryUnreadable
    \/ OpenFails
    \/ InvalidJson
    \/ DocumentNotObject
    \/ ParseDocument
    \/ BuildJsonPanics
    \/ BuildJsonBegin
    \/ SkipProcedure
    \/ EmitProcedure
    \/ ProcedurePanics
    \/ BuildJsonEnd
    \/ DirExhausted
    \/ WriteOut
    \/ WriteFails

Spec == Init /\ [][Next]_vars

-----------------------------------------------------------------------------
(* The type resolver on its own: decode_type on every descriptor of at most *)
(* MaxNodes nodes, directly and as the type of a parameter and of a return  *)
(* value of a procedure given to build_json's loop.                         *)

GetId == <<"G","e","t","I","d">>

InitTypes ==
    /\ pc = "idle"
    /\ outcome = "running"
    /\ cause = "none"
    /\ nfiles = 0
    /\ json = <<>>
    /\ si = 0
    /\ service_name = <<>>
    /\ procedures = <<>>
    /\ pi = 0
    /\ scope = <<>>
    /\ sink = <<>>
    /\ ty \in TypeDescs
    /\ tpc = "input"
    /\ tres = Panic

DecodeType ==
    /\ tpc = "input"
    /\ tres' = decode_type(ty)
    /\ tpc' = "decoded"
    /\ UNCHANGED ty
    /\ UNCHANGED build_vars

DecodeParameter ==
    /\ tpc = "input"
    /\ tres' = build_json_proc(Demo, GetId, ProcDef(<<Param(VId, ty)>>))
    /\ tpc' = "param"
    /\ UNCHANGED ty
    /\ UNCHANGED build_vars

DecodeReturn ==
    /\ tpc = "input"
    /\ tres' = build_json_proc(Demo, GetId, ProcDefRet(<<>>, ty))
    /\ tpc' = "return"
    /\ UNCHANGED ty
    /\ UNCHANGED build_vars

NextTypes ==
    \/ DecodeType
    \/ DecodeParameter
    \/ DecodeReturn

SpecTypes == InitTypes /\ [][NextTypes]_vars

-----------------------------------------------------------------------------
(* Properties of the type resolver (checked under SpecTypes)                *)

CodeOf(t) == Get(t, Code).s

ElemsOf(t) == Get(t, Types).e

PrimitiveName(code) ==
    CASE code = <<"STRING">> -> <<"String">>
      [] code = <<"SINT32">> -> <<"i32">>
      [] code = <<"BOOL">>   -> <<"bool">>
      [] code = <<"FLOAT">>  -> <<"f32">>
      [] code = <<"DOUBLE">> -> <<"f64">>

PrimitiveCodes == {<<"STRING">>, <<"SINT32">>, <<"BOOL">>, <<"FLOAT">>, <<"DOUBLE">>}

\* A well-formed descriptor: a primitive, a TUPLE of well-formed descriptors,
\* a LIST of exactly one well-formed descriptor, or a CLASS of two strings.
RECURSIVE WellFormed(_)
WellFormed(t) ==
    /\ IsObj(t)
    /\ HasStr(t, Code)
    /\ \/ CodeOf(t) \in PrimitiveCodes
       \/ /\ CodeOf(t) = <<"TUPLE">>
          /\ HasArr(t, Types)
          /\ \A i \in DOMAIN ElemsOf(t) : WellFormed(ElemsOf(t)[i])
       \/ /\ CodeOf(t) = <<"LIST">>
          /\ HasArr(t, Types)
          /\ Len(ElemsOf(t)) = 1
          /\ WellFormed(ElemsOf(t)[1])
       \/ /\ CodeOf(t) = <<"CLASS">>
          /\ HasStr(t, <<"service">>)
          /\ HasStr(t, <<"name">>)

\* The path of a class reference.
ClassPath(service, name) ==
    <<"crate::services::">> \o ToSnake(service) \o <<"::">> \o name

\* The reference resolver on well-formed descriptors.
RECURSIVE Resolve(_)
Resolve(t) ==
    CASE CodeOf(t) \in PrimitiveCodes -> PrimitiveName(CodeOf(t))
      [] CodeOf(t) = <<"TUPLE">> ->
            <<"(">>
            \o Join([i \in 1..Len(ElemsOf(t)) |-> Resolve(ElemsOf(t)[i])], <<", ">>)
            \o <<")">>
      [] CodeOf(t) = <<"LIST">> -> <<"Vec<">> \o Resolve(ElemsOf(t)[1]) \o <<">">>
      [] CodeOf(t) = <<"CLASS">> ->
            ClassPath(Get(t, <<"service">>).s, Get(t, <<"name">>).s)

\* C4: on every well-formed descriptor decode_type returns, without a panic,
\* what the reference resolver returns: the fixed name of a primitive, the
\* parenthesised resolved element types of a TUPLE in their order, Vec<..> of
\* the resolved element type of a LIST, through every nesting.
C4_DecodeAgreesWithResolve ==
    (tpc = "decoded" /\ WellFormed(ty)) => tres = Ok(Resolve(ty))

\* C4 witness: a TUPLE holding a LIST of a primitive has been resolved.
C4_Witness ==
    /\ tpc = "decoded"
    /\ ty = TupleOf(<<ListOf(<<Prim("DOUBLE")>>)>>)
    /\ tres = Ok(<<"(", "Vec<", "f64", ">", ")">>)

IsClassRef(t) ==
    /\ HasStr(t, Code)
    /\ CodeOf(t) = <<"CLASS">>
    /\ HasStr(t, <<"service">>)
    /\ HasStr(t, <<"name">>)

\* C5 as stated: the type of Class(S, N) is the normalized S joined to the
\* literal N (demo::Vessel for Demo and Vessel).
C5_ClassIsServiceThenName ==
    (tpc = "decoded" /\ IsClassRef(ty)) =>
        tres = Ok(ToSnake(Get(ty, <<"service">>).s) \o <<"::">> \o Get(ty, <<"name">>).s)

\* C5 as amended: the type of Class(S, N) is the path crate::services::,
\* the snake-case form of S, ::, and the literal N; a LIST wrapping
\* CLASS{Demo, Vessel} resolves to Vec<crate::services::demo::Vessel>; the
\* path is produced although the scope holds no module for the service.
C5_ClassPath ==
    /\ (tpc = "decoded" /\ IsClassRef(ty)) =>
          /\ tres = Ok(ClassPath(Get(ty, <<"service">>).s, Get(ty, <<"name">>).s))
          /\ ~DupModule(Get(ty, <<"service">>).s, scope)
    /\ (tpc = "decoded" /\ ty = ListOf(<<ClassOf(Demo, Vessel)>>)) =>
          tres = Ok(<<"Vec<", "crate::services::", "d", "e", "m", "o", "::",
                      "V", "e", "s", "s", "e", "l", ">">>)

\* C5 witness: the LIST wrapping CLASS{Demo, Vessel} has been resolved.
C5_Witness ==
    /\ tpc = "decoded"
    /\ ty = ListOf(<<ClassOf(Demo, Vessel)>>)
    /\ tres.ok
    /\ scope = <<>>

\* A descriptor whose code is a string outside decode_type's table.
UnknownCode(t) == IsObj(t) /\ HasStr(t, Code) /\ CodeOf(t) \notin KnownCodes

\* The descriptor with every descriptor of unknown code, at any depth of
\* the "types" arrays the resolver descends into, replaced by BOOL.
RECURSIVE Known(_)
Known(t) ==
    IF ~IsObj(t) \/ ~HasStr(t, Code) THEN t
    ELSE IF UnknownCode(t) THEN Prim("BOOL")
    ELSE IF CodeOf(t) \in {<<"TUPLE">>, <<"LIST">>} /\ HasArr(t, Types)
         THEN JObj(<<KV(Code, JStr(CodeOf(t))),
                     KV(Types, JArr([i \in 1..Len(ElemsOf(t)) |-> Known(ElemsOf(t)[i])]))>>)
    ELSE t

\* C9: a descriptor of unknown code resolves to the empty type expression
\* without a panic, as such, as a parameter type and as a return type; and
\* nested at any depth it never causes the panic of a resolution: the
\* resolution panics exactly when it does with BOOL in place of the unknown.
C9_UnknownCodeIsEmptyType ==
    /\ (tpc = "decoded" /\ UnknownCode(ty)) => tres = Ok(<<>>)
    /\ (tpc = "param" /\ UnknownCode(ty)) =>
          tres.ok /\ tres.fn.args = << [name |-> ToSnake(VId), ty |-> <<>>] >>
    /\ (tpc = "return" /\ UnknownCode(ty)) =>
          tres.ok /\ tres.fn.ret = << <<>> >>
    /\ tpc = "decoded" => (tres.ok <=> decode_type(Known(ty)).ok)
    /\ tpc = "param" =>
          (tres.ok <=> build_json_proc(Demo, GetId, ProcDef(<<Param(VId, Known(ty))>>)).ok)
    /\ tpc = "return" =>
          (tres.ok <=> build_json_proc(Demo, GetId, ProcDefRet(<<>>, Known(ty))).ok)

\* C9 witness: a parameter whose type is a TUPLE holding a descriptor of
\* unknown code has produced a method.
C9_Witness ==
    /\ tpc = "param"
    /\ ty = TupleOf(<<Prim("UINT64"), Prim("BOOL")>>)
    /\ tres.ok
    /\ tres.fn.args[1].ty = <<"(", ", ", "bool", ")">>

IsListWithEntries(t) ==
    HasStr(t, Code) /\ CodeOf(t) = <<"LIST">> /\ HasArr(t, Types) /\ ElemsOf(t) # <<>>

IsTupleWithTypes(t) ==
    HasStr(t, Code) /\ CodeOf(t) = <<"TUPLE">> /\ HasArr(t, Types)

Decodes(t) == IsObj(t) /\ decode_type(t).ok

\* C10: the result of a LIST with one or more entries is decided by the first
\* entry alone (Vec<..> of its type, a panic exactly when the first entry
\* panics), whatever the later entries are; the result of a TUPLE is decided
\* by all its entries (a panic when any entry panics, else all their types).
C10_ListReadsFirstEntryOnly ==
    /\ (tpc = "decoded" /\ IsListWithEntries(ty)) =>
          /\ tres.ok <=> Decodes(ElemsOf(ty)[1])
          /\ tres.ok => tres.s = <<"Vec<">> \o decode_type(ElemsOf(ty)[1]).s \o <<">">>
          /\ tres = decode_type(ListOf(<<ElemsOf(ty)[1]>>))
    /\ (tpc = "decoded" /\ IsTupleWithTypes(ty)) =>
          /\ tres.ok <=> \A i \in DOMAIN ElemsOf(ty) : Decodes(ElemsOf(ty)[i])
          /\ tres.ok =>
                tres.s = <<"(">>
                         \o Join([i \in 1..Len(ElemsOf(ty)) |->
                                     decode_type(ElemsOf(ty)[i]).s], <<", ">>)
                         \o <<")">>

\* C10 witness: a LIST whose second entry is no object has been resolved to
\* the sequence of its first entry's type.
C10_Witness ==
    /\ tpc = "decoded"
    /\ ty = ListOf(<<Prim("BOOL"), JNull>>)
    /\ tres = Ok(<<"Vec<", "bool", ">">>)

-----------------------------------------------------------------------------
(* Properties of the generator (checked under Spec)                         *)

\* build_json has pushed a module: the last one is that of service_name, and
\* the procedures before index pi have been through its loop.
HasModule == scope # <<>>

Last == scope[Len(scope)]

\* The methods of the last module after its constructor.
Methods == Tail(Last.impl.fns)

Processed == SubSeq(procedures, 1, pi - 1)

\* The procedure names of the inputs that are in Pascal case.
PascalKeys ==
    {<<"G","e","t","I","d">>, <<"S","e","t","I","d">>, <<"S","c","a","n">>,
     <<"L","o","a","d">>, <<"S","t","o","p">>, <<"M","a","k","e">>}

InPascalCase(e) == e.k \in PascalKeys

\* The processed procedures that are eligible, in the schema's order.
Eligible == SelectSeq(Processed, InPascalCase)

ParamsOf(def) == Get(def, <<"parameters">>).e

ParamName(p) == ToSnake(Get(p, <<"name">>).s)

\* The procedure loop panicked at procedures[pi].
PanickedInLoop == outcome = "panic" /\ pi >= 1 /\ pi <= Len(procedures)

\* C1: the k-th method is that of the k-th eligible procedure; its request
\* holds one argument per declared parameter, the i-th (from 0) being the
\* i-th parameter's to_argument(i), and its formal parameters are the same
\* names in the same order.
C1_ArgumentsArePositional ==
    HasModule =>
        /\ Len(Methods) = Len(Eligible)
        /\ \A k \in 1..Len(Eligible) :
              LET params == ParamsOf(Eligible[k].v)
                  f      == Methods[k]
              IN  /\ f.body.args =
                        [i \in 1..Len(params) |->
                            [recv |-> ParamName(params[i]), tag |-> i - 1]]
                  /\ [i \in 1..Len(f.args) |-> f.args[i].name] =
                        [i \in 1..Len(params) |-> ParamName(params[i])]
                  /\ [i \in 1..Len(f.args) |-> f.args[i].name] =
                        [i \in 1..Len(f.body.args) |-> f.body.args[i].recv]

\* C1 witness: the method of a procedure of two parameters, vId and Name,
\* has been emitted with the arguments v_id.to_argument(0), name.to_argument(1).
C1_Witness ==
    /\ pc = "proc"
    /\ HasModule
    /\ Methods # <<>>
    /\ Methods[Len(Methods)].body.args =
          << [recv |-> <<"v","_","i","d">>, tag |-> 0],
             [recv |-> <<"n","a","m","e">>, tag |-> 1] >>
    /\ Len(Methods[Len(Methods)].args) = 2

\* C2: the methods of a service are those of its procedures whose key is in
\* Pascal case, in order, each what build_json emits for it when the other
\* procedures are absent; the loop panics only at a procedure in Pascal case.
C2_OnlyPascalProceduresEmitted ==
    HasModule =>
        /\ [k \in 1..Len(Methods) |-> Methods[k].body.procedure] =
              [k \in 1..Len(Eligible) |-> Eligible[k].k]
        /\ Methods =
              [k \in 1..Len(Eligible) |->
                  build_json_proc(service_name, Eligible[k].k, Eligible[k].v).fn]
        /\ PanickedInLoop => InPascalCase(procedures[pi])
        /\ \A k \in 1..Len(Processed) :
              ~InPascalCase(Processed[k]) =>
                  \A m \in 1..Len(Methods) : Methods[m].body.procedure # Processed[k].k

\* C2 witness: the loop has passed Vessel_get_Id, whose definition is null,
\* and then emitted the method of Scan.
C2_Witness ==
    /\ pc = "proc"
    /\ HasModule
    /\ procedures = <<ProcEntries[4], ProcEntries[5]>>
    /\ pi = 3
    /\ Len(Methods) = 1
    /\ Methods[1].name = <<"s","c","a","n">>

FileFailures == {"read_dir", "dir_entry", "open", "json", "shape", "module"}

\* C3: `out` is written at most once, by the write at the end of build; a run
\* that returns Ok has written the whole scope once; a run that fails before
\* that write, on the directory, a file, its JSON or its shape, has written
\* nothing.
C3_SingleWriteAtTheEnd ==
    /\ Len(sink) <= 1
    /\ sink # <<>> => (pc = "done" /\ cause \in {"none", "sink"} /\ sink[1].text = scope)
    /\ outcome = "ok" => sink = << [text |-> scope, complete |-> TRUE] >>
    /\ cause \in FileFailures => sink = <<>>

\* C3 witness: a second file is not valid JSON after a first document has
\* been processed into a module with a method, and nothing has been written.
C3_Witness ==
    /\ pc = "done"
    /\ cause = "json"
    /\ nfiles = 1
    /\ HasModule
    /\ Methods # <<>>
    /\ sink = <<>>

\* C6: the request of every method carries the service key and the procedure
\* key as the schema spells them, while the module, the struct, the method and
\* the parameters are named by their normalized forms.
C6_WireNamesAreRaw ==
    HasModule =>
        /\ pc = "proc" => service_name = json[si].k
        /\ Last.name = ToSnake(service_name)
        /\ Last.structs[1].name = ToPascal(service_name)
        /\ Last.impl.target = ToPascal(service_name)
        /\ service_name = KRPC =>
              /\ Last.name = <<"k","r","p","c">>
              /\ Last.structs[1].name = <<"K","r","p","c">>
        /\ Len(Methods) = Len(Eligible)
        /\ \A k \in 1..Len(Eligible) :
              /\ Methods[k].body.service = service_name
              /\ Methods[k].body.procedure = Eligible[k].k
              /\ Methods[k].name = ToSnake(Eligible[k].k)
              /\ [i \in 1..Len(Methods[k].args) |-> Methods[k].args[i].name] =
                    [i \in 1..Len(ParamsOf(Eligible[k].v)) |->
                        ParamName(ParamsOf(Eligible[k].v)[i])]

\* C6 witness: service KRPC has the module krpc, the struct Krpc and, for its
\* procedure SetId, the method set_id whose request names KRPC and SetId.
C6_Witness ==
    /\ HasModule
    /\ service_name = KRPC
    /\ Last.name = <<"k","r","p","c">>
    /\ Last.structs[1].name = <<"K","r","p","c">>
    /\ Len(Methods) = 1
    /\ Methods[1].name = <<"s","e","t","_","i","d">>
    /\ Methods[1].body.service = <<"K","R","P","C">>
    /\ Methods[1].body.procedure = <<"S","e","t","I","d">>

\* C7: a method declares a return type exactly when its procedure has a
\* return_type, and then the type decode_type gives for it; with or without
\* one, its body is the request, the call and the conversion of the response.
C7_ReturnTypeIffDeclared ==
    HasModule =>
        /\ Len(Methods) = Len(Eligible)
        /\ \A k \in 1..Len(Eligible) :
              LET def == Eligible[k].v
                  f   == Methods[k]
              IN  /\ f.ret # <<>> <=> Has(def, <<"return_type">>)
                  /\ Has(def, <<"return_type">>) =>
                        f.ret = << decode_type(Get(def, <<"return_type">>)).s >>
                  /\ f.body.steps =
                        <<"Request::from(proc_call)", "self.client.call(request)",
                          "dbg!(&response)", "response.into()">>

\* C7 witness: GetId, which returns a STRING, and SetId, which returns
\* nothing, have both been emitted.
C7_Witness ==
    /\ HasModule
    /\ Len(Methods) = 2
    /\ Methods[1].ret = << <<"String">> >>
    /\ Methods[2].ret = <<>>
    /\ Methods[1].body.steps = Methods[2].body.steps

\* C8 as stated: every failure of build is of one class; taking the class to
\* be that of an unreadable file, the error returned to the caller.
C8_OneFailureClass ==
    cause # "none" => outcome = "err"

\* C8 as amended: the failures of build are of two classes.  An unreadable
\* directory, an unreadable file, invalid JSON and an unwritable sink are
\* returned to the caller as an error; an unreadable directory entry, an
\* unexpected schema shape and a module name the scope already holds are
\* panics.
C8_TwoFailureClasses ==
    /\ cause \in {"read_dir", "open", "json", "sink"} => outcome = "err"
    /\ cause \in {"dir_entry", "shape", "module"} => outcome = "panic"
    /\ cause = "none" <=> outcome \in {"running", "ok"}

\* C8 witness: a run has ended in a panic on the shape of a document.
C8_Witness ==
    /\ pc = "done"
    /\ cause = "shape"
    /\ outcome = "panic"

=============================================================================
